---- MODULE Spec2Model ----
(***************************************************************************)
(* A model of the Gemini chat client: the API retry wrapper                *)
(* (core/gemini_client.py), the markdown tokenizer and the foldable code   *)
(* blocks (utils/markdown_parser_v2.py), the chat display                  *)
(* (ui/chat_display.py), the request/worker/callback flow of the           *)
(* application (core/chat_application.py) and the conversation file        *)
(* (utils/conversation_manager.py).                                        *)
(*                                                                         *)
(* Text is modelled by TLA+ strings, read character by character with Len  *)
(* and SubSeq.  A TLA+ string literal cannot hold the grave accent, so the *)
(* backtick of the markdown source is written "~" throughout; "~" stands   *)
(* for no other character.                                                 *)
(***************************************************************************)
EXTENDS Integers, Sequences, FiniteSets, TLC

VARIABLES
    \* GeminiClient.send_message_with_retry, one top-level call
    rt_pc,          \* "idle" | "try" | "returned" | "raised"
    rt_retries,     \* the retries argument of the running (recursive) call
    rt_log,         \* outcome of every chat_session.send_message so far: "ok" or the error text
    rt_sleeps,      \* the arguments of time.sleep so far, in seconds
    rt_result,      \* what the top-level call gave back: a stream or the raised error
    rt_session,     \* GeminiClient.chat_session seen by the call: "None" or "session"
    \* MarkdownTokenizer.tokenize, one call
    tk_pc,          \* "idle" | "loop" | "done"
    tk_text,        \* the argument text
    tk_lines,       \* lines
    tk_i,           \* i, Python's index into lines
    tk_tokens,      \* tokens
    tk_passes,      \* history: for every pass of the while loop, what it consumed
    \* ChatApplication and its input widgets
    images,         \* ImageHandler.images (multiple mode): the attached images
    selected_image, \* ImageHandler.selected_image (single mode field)
    files,          \* FileHandler.files (multiple mode): the attached files
    is_streaming,   \* ChatApplication.is_streaming
    send_button,    \* TRUE when send_button is packed (shown)
    stop_button,    \* TRUE when stop_button is packed (shown)
    usage_label,    \* the request count shown by usage_label
    workers,        \* one record per thread started by process_response_in_background
    after_queue,    \* callbacks given to root.after(0, ...) and not yet run
    warnings,       \* history: number of warning boxes send_message has shown
    attach_ops,     \* history: number of files the user has attached
    \* ChatDisplay and its MarkdownRenderer
    cd_is_streaming,\* ChatDisplay.is_streaming
    stream_buffer,  \* ChatDisplay.stream_buffer
    chat_text,      \* what has been inserted into the Text widget, in order
    code_blocks,    \* MarkdownRenderer.code_blocks with each block's widgets
    clipboard,      \* the clipboard of the Text widget
    renders,        \* history: responses rendered since the last start_bot_response
    \* GeminiClient, ConversationManager and the conversation file
    chat_session,   \* GeminiClient.chat_session: none, or a session with its history
    current_model_name,
    system_prompt,
    generation_params,
    requests_today, \* APIUsage.requests_today
    tokens_used,    \* APIUsage.tokens_used
    conversation_log,
    saved_file      \* the file written by save_conversation: none, or its JSON object

rtVars == <<rt_pc, rt_retries, rt_log, rt_sleeps, rt_result, rt_session>>
tkVars == <<tk_pc, tk_text, tk_lines, tk_i, tk_tokens, tk_passes>>

uiVars == <<images, selected_image, files, is_streaming, send_button, stop_button,
            usage_label, workers, after_queue, warnings, attach_ops>>
cdVars == <<cd_is_streaming, stream_buffer, chat_text, code_blocks, clipboard, renders>>
gcVars == <<chat_session, current_model_name, system_prompt, generation_params,
            requests_today, tokens_used, conversation_log, saved_file>>
appVars == <<uiVars, cdVars, gcVars>>

vars == <<rtVars, tkVars, appVars>>

-----------------------------------------------------------------------------
(* Strings                                                                 *)

\* Python's slice s[a-1:b]: positions outside the string give no characters.
Slice(s, a, b) ==
    IF a > b \/ a > Len(s) \/ b < 1 THEN ""
    ELSE SubSeq(s, IF a < 1 THEN 1 ELSE a, IF b > Len(s) THEN Len(s) ELSE b)

Ch(s, i) == Slice(s, i, i)

\* str.lower() on one character
LowerChar(c) ==
    LET UpperCase == "ABCDEFGHIJKLMNOPQRSTUVWXYZ"
        LowerCase == "abcdefghijklmnopqrstuvwxyz"
    IN  IF \E k \in 1..Len(UpperCase) : Ch(UpperCase, k) = c
        THEN Ch(LowerCase, CHOOSE k \in 1..Len(UpperCase) : Ch(UpperCase, k) = c)
        ELSE c

RECURSIVE Lower(_)
Lower(s) == IF s = "" THEN "" ELSE LowerChar(Ch(s, 1)) \o Lower(Slice(s, 2, Len(s)))

\* Python's  sub in s
Contains(s, sub) ==
    \E k \in 1..(Len(s) - Len(sub) + 1) : Slice(s, k, k + Len(sub) - 1) = sub

StartsWith(s, p) == Len(s) >= Len(p) /\ Slice(s, 1, Len(p)) = p

-----------------------------------------------------------------------------
(* Python string methods used by the tokenizer                             *)

\* The whitespace str.strip() removes and the regex class \s matches, as far
\* as it occurs in the modelled texts.
WhiteSpace == {" ", "\t", "\n"}
RECURSIVE lstrip(_)
lstrip(s) ==
    IF s # "" /\ Ch(s, 1) \in WhiteSpace THEN lstrip(Slice(s, 2, Len(s))) ELSE s

RECURSIVE rstrip(_)
rstrip(s) ==
    IF s # "" /\ Ch(s, Len(s)) \in WhiteSpace THEN rstrip(Slice(s, 1, Len(s) - 1)) ELSE s

strip(s) == lstrip(rstrip(s))

\* text.split('\n')
RECURSIVE split(_)
split(text) ==
    IF \E k \in 1..Len(text) : Ch(text, k) = "\n"
    THEN LET k == CHOOSE n \in 1..Len(text) :
                      /\ Ch(text, n) = "\n"
                      /\ \A m \in 1..(n - 1) : Ch(text, m) # "\n"
         IN  <<Slice(text, 1, k - 1)>> \o split(Slice(text, k + 1, Len(text)))
    ELSE <<text>>

\* '\n'.join(lines)
RECURSIVE join(_)
join(lines) ==
    IF lines = <<>> THEN ""
    ELSE IF Len(lines) = 1 THEN lines[1]
    ELSE lines[1] \o "\n" \o join(Tail(lines))

\* The length of the longest prefix of s made of characters of S.
LeadingRun(s, S) ==
    CHOOSE n \in 0..Len(s) :
        /\ \A k \in 1..n : Ch(s, k) \in S
        /\ n = Len(s) \/ Ch(s, n + 1) \notin S

\* lines[i] with Python's index, from 0.
At(lines, i) == lines[i + 1]

-----------------------------------------------------------------------------
(* MarkdownTokenizer                                                       *)

FENCE == "~~~"

NoMeta == [k \in {} |-> ""]
NoToken == [type |-> "none"]

Token(type, content, level, metadata) ==
    [type |-> type, content |-> content, level |-> level, metadata |-> metadata]

LINE_BREAK == Token("line_break", "\n", 0, NoMeta)

\* The test that ends a code block: the line, stripped, is the bare fence.
is_closing_fence_Prefix(l) == StartsWith(strip(l), FENCE)
is_closing_fence(l) == strip(l) = FENCE

\* The content line as it is kept.
content_line(l) == l

consumed_lines_OffByOne(i, start_idx) == i - start_idx
consumed_lines(i, start_idx) == i - start_idx + 1

\* The while loop of _parse_code_block from index i on.
RECURSIVE code_block_scan(_, _, _, _, _)
code_block_scan(lines, start_idx, language, i, content_lines) ==
    IF i < Len(lines)
    THEN IF is_closing_fence(At(lines, i))
         THEN [token    |-> Token("code_block", join(content_lines), 0,
                                  [language |-> language]),
               consumed |-> consumed_lines(i, start_idx),
               closer   |-> i]
         ELSE code_block_scan(lines, start_idx, language, i + 1,
                              Append(content_lines, content_line(At(lines, i))))
    ELSE [token |-> NoToken, consumed |-> 0, closer |-> start_idx]

\* language = lines[start_idx].strip()[3:].strip()
parse_code_block(lines, start_idx) ==
    IF ~StartsWith(strip(At(lines, start_idx)), FENCE)
    THEN [token |-> NoToken, consumed |-> 0, closer |-> start_idx]
    ELSE code_block_scan(lines, start_idx, strip(Slice(strip(At(lines, start_idx)), 4,
                                     Len(strip(At(lines, start_idx))))),
                         start_idx + 1, <<>>)

\* The regex tail  \s+(.+)$  (min_spaces = 1) or  \s*(.+)$  (min_spaces = 0)
\* applied to rest: the whitespace run of length w is greedy and gives one
\* character back when nothing else is left for (.+).
spaces_then_content(rest, min_spaces) ==
    LET w == LeadingRun(rest, WhiteSpace)
    IN  IF w < Len(rest)
        THEN [ok |-> w >= min_spaces, content |-> Slice(rest, w + 1, Len(rest))]
        ELSE [ok |-> w >= min_spaces + 1, content |-> Slice(rest, w, w)]

\* ^(#{1,6})\s+(.+)$  with h leading '#'
match_header(line) ==
    LET h == LeadingRun(line, {"#"})
        tail == spaces_then_content(Slice(line, h + 1, Len(line)), 1)
    IN  [ok |-> h >= 1 /\ h <= 6 /\ tail.ok, level |-> h, content |-> tail.content]

\* ^(\*{3,}|-{3,}|_{3,})\s*$
match_horizontal_rule(line) ==
    \E c \in {"*", "-", "_"} :
        \E r \in {LeadingRun(line, {c})} :
            r >= 3 /\ strip(Slice(line, r + 1, Len(line))) = ""

\* ^>\s*(.+)$
match_quote(line) ==
    [ok      |-> StartsWith(line, ">")
                 /\ spaces_then_content(Slice(line, 2, Len(line)), 0).ok,
     content |-> spaces_then_content(Slice(line, 2, Len(line)), 0).content]

\* ^(\s*)\d+\.\s+(.+)$  with d leading digits after the indent; (\d+)\.
\* searched in the same line finds those digits.
match_numbered_list(line) ==
    LET indent == LeadingRun(line, WhiteSpace)
        rest == Slice(line, indent + 1, Len(line))
        d == LeadingRun(rest, {"0", "1", "2", "3", "4", "5", "6", "7", "8", "9"})
        tail == spaces_then_content(Slice(rest, d + 2, Len(rest)), 1)
    IN  [ok      |-> d >= 1 /\ Ch(rest, d + 1) = "." /\ tail.ok,
         indent  |-> indent,
         number  |-> Slice(rest, 1, d),
         content |-> tail.content]

\* ^(\s*)[-*+]\s+(.+)$
match_list_item(line) ==
    LET indent == LeadingRun(line, WhiteSpace)
        rest == Slice(line, indent + 1, Len(line))
        tail == spaces_then_content(Slice(rest, 2, Len(rest)), 1)
    IN  [ok      |-> Ch(rest, 1) \in {"-", "*", "+"} /\ tail.ok,
         indent  |-> indent,
         content |-> tail.content]

\* The patterns are tried in the order of PATTERNS; the first match returns.
block_token_of(mh, hr, mq, mn, ml) ==
    IF mh.ok THEN Token("header", mh.content, mh.level, NoMeta)
    ELSE IF hr THEN Token("horizontal_rule", "", 0, NoMeta)
    ELSE IF mq.ok THEN Token("quote", mq.content, 0, NoMeta)
    ELSE IF mn.ok
    THEN Token("numbered_list", mn.content, mn.indent, [number |-> mn.number])
    ELSE IF ml.ok THEN Token("list_item", ml.content, ml.indent, NoMeta)
    ELSE NoToken

parse_block_element(line) ==
    block_token_of(match_header(line), match_horizontal_rule(line),
                   match_quote(line), match_numbered_list(line),
                   match_list_item(line))

\* INLINE_PATTERNS, in order: opening and closing delimiter around (.+?);
\* guarded is the italic pattern's (?<!\*) before and (?!\*) after.
INLINE_PATTERNS ==
    << [open |-> "***", close |-> "***", type |-> "bold",        guarded |-> FALSE],
       [open |-> "**",  close |-> "**",  type |-> "bold",        guarded |-> FALSE],
       [open |-> "*",   close |-> "*",   type |-> "italic",      guarded |-> TRUE],
       [open |-> "~",   close |-> "~",   type |-> "code_inline", guarded |-> FALSE] >>

\* The pattern matches s with its opening delimiter at p and its closing one at q.
inline_match_at(s, pat, p, q) ==
    /\ Slice(s, p, p + Len(pat.open) - 1) = pat.open
    /\ q >= p + Len(pat.open) + 1
    /\ Slice(s, q, q + Len(pat.close) - 1) = pat.close
    /\ pat.guarded =>
          /\ p = 1 \/ Ch(s, p - 1) # "*"
          /\ q + Len(pat.close) - 1 = Len(s) \/ Ch(s, q + Len(pat.close)) # "*"

\* The pattern matches s from position p.
inline_matches_from(s, pat, p) ==
    \E q \in 1..Len(s) : inline_match_at(s, pat, p, q)

\* re.search(pattern, s): the leftmost position a match starts at, 0 for none.
inline_start(s, pat) ==
    IF \E a \in 1..Len(s) : inline_matches_from(s, pat, a)
    THEN CHOOSE a \in 1..Len(s) :
             \A b \in 1..a : inline_matches_from(s, pat, b) <=> b = a
    ELSE 0

\* The match object of re.search: for the leftmost start the shortest group
\* (.+?) that lets the rest match; start() and end() as Python counts, and
\* group(1).
inline_search(s, pat) ==
    LET p == inline_start(s, pat)
        q == CHOOSE c \in 1..Len(s) :
                 \A d \in 1..c : inline_match_at(s, pat, p, d) <=> d = c
    IN  [start  |-> p - 1,
         end    |-> q + Len(pat.close) - 1,
         group1 |-> Slice(s, p + Len(pat.open), q - 1)]

\* The for loop over INLINE_PATTERNS: the earliest match start wins, and of
\* equal starts the earlier pattern (the comparison is a strict <).  0: none.
earliest_pattern(s) ==
    LET starts == [k \in 1..Len(INLINE_PATTERNS) |-> inline_start(s, INLINE_PATTERNS[k])]
    IN  IF \A k \in DOMAIN starts : starts[k] = 0 THEN 0
        ELSE CHOOSE k \in DOMAIN starts :
                /\ starts[k] # 0
                /\ \A j \in DOMAIN starts :
                      starts[j] # 0 =>
                         \/ starts[k] < starts[j]
                         \/ starts[k] = starts[j] /\ k <= j

RECURSIVE parse_inline_elements(_)

\* The tokens of one pass of the while loop with match m, and of the passes
\* after it.
inline_tokens_after(text, type, m) ==
    (IF m.start > 0
     THEN <<Token("text", Slice(text, 1, m.start), 0, NoMeta)>>
     ELSE <<>>)
    \o <<Token(type, m.group1, 0, NoMeta)>>
    \o parse_inline_elements(Slice(text, m.end + 1, Len(text)))

inline_tokens_with(text, k) ==
    IF k = 0
    THEN <<Token("text", text, 0, NoMeta)>>
    ELSE inline_tokens_after(text, INLINE_PATTERNS[k].type,
                             inline_search(text, INLINE_PATTERNS[k]))

\* _parse_inline_elements on text[current_pos:]; every pass of the while loop
\* searches that slice, so the recursion is on the slice.
parse_inline_elements(text) ==
    IF text = "" THEN <<>> ELSE inline_tokens_with(text, earliest_pattern(text))

\* The block token with its inline tokens stored under 'inline_tokens' when
\* there are any.
add_inline_tokens(block_token, inline_tokens) ==
    IF inline_tokens # <<>>
    THEN [block_token EXCEPT !.metadata =
             [k \in (DOMAIN block_token.metadata) \cup {"inline_tokens"} |->
                 IF k = "inline_tokens" THEN inline_tokens
                 ELSE block_token.metadata[k]]]
    ELSE block_token

plain_line_tokens(line, inline_tokens) ==
    IF inline_tokens # <<>>
    THEN inline_tokens \o <<LINE_BREAK>>
    ELSE <<Token("text", line, 0, NoMeta), LINE_BREAK>>

line_tokens_of(line, block_token) ==
    IF block_token # NoToken
    THEN <<add_inline_tokens(block_token, parse_inline_elements(block_token.content)),
           LINE_BREAK>>
    ELSE plain_line_tokens(line, parse_inline_elements(line))

\* The tokens of an ordinary (non-blank, not a closed code block) line.
ordinary_pass(i, line) ==
    [kind |-> "line", tokens |-> line_tokens_of(line, parse_block_element(line)),
     i |-> i + 1, last |-> i]

pass_after_fence(i, line, cb) ==
    IF cb.token # NoToken
    THEN [kind |-> "code_block", tokens |-> <<cb.token>>,
          i |-> i + cb.consumed, last |-> cb.closer]
    ELSE ordinary_pass(i, line)

pass_of(lines, i, line) ==
    IF strip(line) = ""
    THEN [kind |-> "blank", tokens |-> <<LINE_BREAK>>, i |-> i + 1, last |-> i]
    ELSE IF StartsWith(strip(line), FENCE)
    THEN pass_after_fence(i, line, parse_code_block(lines, i))
    ELSE ordinary_pass(i, line)

\* One pass of the while loop of tokenize at index i: the tokens it appends,
\* the next index, and the last line it turned into those tokens.
tokenize_pass(lines, i) == pass_of(lines, i, rstrip(At(lines, i)))

RECURSIVE tokenize_from(_, _, _)

\* tokenize(text) as a function: the loop from index i with the tokens so far.
\* tokenize(text) as a function: the loop from index i with the tokens so far.
tokenize_from(lines, i, tokens) ==
    IF i < Len(lines)
    THEN LET r == tokenize_pass(lines, i)
         IN  tokenize_from(lines, r.i, tokens \o r.tokens)
    ELSE tokens

tokenize(text) == tokenize_from(split(text), 0, <<>>)

\* The lines the checked texts are made of, and how many lines a text has.
MaxLines == 4
LineSet == { "~~~", " ~~~ ", "~~~py", " ~~~ js ", "", " x ", "- *b*" }
Texts == { join(ls) : ls \in UNION { [1..n -> LineSet] : n \in 1..MaxLines } }

\* tokenize(text) is called and runs its first three statements.
TokCall ==
    /\ tk_pc = "idle"
    /\ \E text \in Texts :
          /\ tk_text' = text
          /\ tk_lines' = split(text)
    /\ tk_i' = 0
    /\ tk_tokens' = <<>>
    /\ tk_passes' = <<>>
    /\ tk_pc' = "loop"
    /\ UNCHANGED <<rtVars, appVars>>

\* One pass of the while loop, of the given kind.
TokPass(kind) ==
    /\ tk_pc = "loop"
    /\ tk_i < Len(tk_lines)
    /\ \E r \in {tokenize_pass(tk_lines, tk_i)} :
           /\ r.kind = kind
           /\ tk_tokens' = tk_tokens \o r.tokens
           /\ tk_i' = r.i
           /\ tk_passes' = Append(tk_passes,
                  [kind |-> kind, first |-> tk_i, last |-> r.last, next |-> r.i,
                   ntokens |-> Len(r.tokens)])
    /\ UNCHANGED <<tk_pc, tk_text, tk_lines>>

TokBlankLine == TokPass("blank") /\ UNCHANGED <<rtVars, appVars>>
TokCodeBlock == TokPass("code_block") /\ UNCHANGED <<rtVars, appVars>>
TokOrdinaryLine == TokPass("line") /\ UNCHANGED <<rtVars, appVars>>

\* The loop condition fails and tokenize returns tokens.
TokReturn ==
    /\ tk_pc = "loop"
    /\ ~(tk_i < Len(tk_lines))
    /\ tk_pc' = "done"
    /\ UNCHANGED <<tk_text, tk_lines, tk_i, tk_tokens, tk_passes, rtVars, appVars>>

TokIdle ==
    /\ tk_pc = "idle"
    /\ tk_text = ""
    /\ tk_lines = <<>>
    /\ tk_i = 0
    /\ tk_tokens = <<>>
    /\ tk_passes = <<>>

NextTok == TokCall \/ TokBlankLine \/ TokCodeBlock \/ TokOrdinaryLine \/ TokReturn

-----------------------------------------------------------------------------
(* GeminiClient.send_message_with_retry                                    *)

MAX_RETRIES == 3
RETRY_DELAY == 1

\* The texts str(e) of the exceptions chat_session.send_message raises.
ApiErrors ==
    { "429 Rate Limit exceeded", "Quota exceeded", "Deadline Timeout",
      "Connection reset", "400 Invalid argument", "API key not valid" }

retryable_errors ==
    { "rate limit", "quota", "temporarily unavailable",
      "server error", "timeout", "connection", "network" }

is_retryable_Always(e) == TRUE
is_retryable(e) == \E m \in retryable_errors : Contains(Lower(e), m)

ShouldRetry_OffByOne(e, retries) == is_retryable(e) /\ retries <= MAX_RETRIES
ShouldRetry(e, retries) == is_retryable(e) /\ retries < MAX_RETRIES

SleepSeconds_Constant(retries) == RETRY_DELAY

SleepSeconds(retries) == RETRY_DELAY * (retries + 1)

\* The caller enters send_message_with_retry with the default retries = 0.
RetryCall ==
    /\ rt_pc \in {"idle", "returned", "raised"}
    /\ rt_pc' = "try"
    /\ rt_retries' = 0
    /\ rt_log' = <<>>
    /\ rt_sleeps' = <<>>
    /\ rt_result' = [kind |-> "none", value |-> ""]
    /\ UNCHANGED <<rt_session, tkVars, appVars>>

\* The try body runs to the return: the session exists afterwards and the
\* stream of this attempt is handed back through every recursive frame.
RetryAttemptReturns ==
    /\ rt_pc = "try"
    /\ rt_session' = "session"
    /\ rt_log' = Append(rt_log, "ok")
    /\ rt_result' = [kind |-> "stream", value |-> "ok", attempt |-> Len(rt_log) + 1]
    /\ rt_pc' = "returned"
    /\ UNCHANGED <<rt_retries, rt_sleeps, tkVars, appVars>>

\* send_message raises e; the handler sleeps and recurses with retries + 1.
RetryAttemptRetries ==
    /\ rt_pc = "try"
    /\ \E e \in ApiErrors :
        /\ ShouldRetry(e, rt_retries)
        /\ rt_log' = Append(rt_log, e)
        /\ rt_sleeps' = Append(rt_sleeps, SleepSeconds(rt_retries))
        /\ rt_retries' = rt_retries + 1
    /\ rt_session' = "session"
    /\ rt_pc' = "try"
    /\ UNCHANGED <<rt_result, tkVars, appVars>>

\* send_message raises e; the handler re-raises it.
RetryAttemptRaises ==
    /\ rt_pc = "try"
    /\ \E e \in ApiErrors :
        /\ ~ShouldRetry(e, rt_retries)
        /\ rt_log' = Append(rt_log, e)
        /\ rt_result' = [kind |-> "raised", value |-> e, attempt |-> Len(rt_log) + 1]
    /\ rt_session' = "session"
    /\ rt_pc' = "raised"
    /\ UNCHANGED <<rt_retries, rt_sleeps, tkVars, appVars>>

RetryStep == RetryAttemptReturns \/ RetryAttemptRetries \/ RetryAttemptRaises

RetryIdle ==
    /\ rt_pc = "idle"
    /\ rt_retries = 0
    /\ rt_log = <<>>
    /\ rt_sleeps = <<>>
    /\ rt_result = [kind |-> "none", value |-> ""]
    /\ rt_session = "None"

InitRetry ==
    /\ rt_pc = "idle"
    /\ rt_retries = 0
    /\ rt_log = <<>>
    /\ rt_sleeps = <<>>
    /\ rt_result = [kind |-> "none", value |-> ""]
    /\ rt_session \in {"None", "session"}

NextRetry == RetryCall \/ RetryAttemptReturns \/ RetryAttemptRetries \/ RetryAttemptRaises

-----------------------------------------------------------------------------
(* MarkdownRenderer                                                        *)

\* One insert into the Text widget: the text and the tag it is inserted with.
\* An embedded window (a code block's container frame) is an item with the
\* tag "window" and the block's content.
Item(tag, text) == [tag |-> tag, text |-> text]

RECURSIVE Repeat(_, _)
Repeat(s, n) == IF n <= 0 THEN "" ELSE s \o Repeat(s, n - 1)

\* len(text.split()): the number of maximal runs of non-whitespace characters
word_count(s) ==
    Cardinality({ k \in 1..Len(s) :
                    /\ Ch(s, k) \notin WhiteSpace
                    /\ k = 1 \/ Ch(s, k - 1) \in WhiteSpace })

\* The glyphs of the widgets, by name.
ICON_COLLAPSED == "icon:right-pointing triangle"
ICON_EXPANDED == "icon:down-pointing triangle"
inline_item(token, context_tag) ==
    LET bold_tag == IF StartsWith(context_tag, "md_header") THEN context_tag \o "_bold"
                    ELSE IF context_tag = "md_list" THEN "md_list_bold"
                    ELSE "md_bold"
    IN  IF token.type = "text" THEN Item(context_tag, token.content)
        ELSE IF token.type = "bold" THEN Item(bold_tag, token.content)
        ELSE IF token.type = "italic" THEN Item("md_italic", token.content)
        ELSE Item("md_code_inline", token.content)

render_inline_tokens(inline_tokens, context_tag) ==
    [k \in 1..Len(inline_tokens) |-> inline_item(inline_tokens[k], context_tag)]

render_plain_token(token) ==
    LET inline_tokens == IF "inline_tokens" \in DOMAIN token.metadata
                         THEN token.metadata.inline_tokens ELSE <<>>
        header_tag == "md_header_" \o Ch("123456", token.level)
        header_prefix == IF token.level = 1 THEN "[1] "
                         ELSE IF token.level = 2 THEN "[2] " ELSE "[3] "
    IN  IF token.type = "text" THEN <<Item("md_text", token.content)>>
        ELSE IF token.type = "bold" THEN <<Item("md_bold", token.content)>>
        ELSE IF token.type = "italic" THEN <<Item("md_italic", token.content)>>
        ELSE IF token.type = "code_inline" THEN <<Item("md_code_inline", token.content)>>
        ELSE IF token.type = "header"
        THEN <<Item(header_tag, header_prefix)>>
             \o render_inline_tokens(inline_tokens, header_tag)
        ELSE IF token.type = "list_item"
        THEN <<Item("md_list", Repeat("  ", token.level \div 2) \o "* ")>>
             \o render_inline_tokens(inline_tokens, "md_list")
        ELSE IF token.type = "numbered_list"
        THEN <<Item("md_list", Repeat("  ", token.level \div 2) \o token.metadata.number \o ". ")>>
             \o render_inline_tokens(inline_tokens, "md_list")
        ELSE IF token.type = "quote"
        THEN <<Item("md_quote", "| ")>> \o render_inline_tokens(inline_tokens, "md_quote")
        ELSE IF token.type = "horizontal_rule" THEN <<Item("md_hr", Repeat("-", 50))>>
        ELSE IF token.type = "line_break" THEN <<Item("", token.content)>>
        ELSE <<>>

\* _render_code_block: the block's widgets as they are when it returns.
\* clicks is history: the clicks on the block's four bound widgets so far.
new_code_block(token) ==
    [ content     |-> token.content,
      language    |-> token.metadata.language,
      lang_label  |-> IF token.metadata.language # "" THEN token.metadata.language
                      ELSE "code",
      line_count  |-> Len(split(strip(token.content))),
      is_expanded |-> FALSE,
      code_frame  |-> FALSE,
      toggle_icon |-> ICON_COLLAPSED,
      clicks      |-> 0 ]

\* The inserts _render_code_block makes: the container frame as an embedded
\* window, then two newlines.
\* One pass of the loop of render_markdown: what _render_token adds to the
\* inserts made and to the code blocks appended so far.
render_token(acc, token) ==
    IF token.type = "code_block"
    THEN [items  |-> acc.items \o <<Item("window", token.content), Item("", "\n\n")>>,
          blocks |-> Append(acc.blocks, new_code_block(token))]
    ELSE [items  |-> acc.items \o render_plain_token(token),
          blocks |-> acc.blocks]

RECURSIVE render_tokens(_, _, _)
render_tokens(tokens, k, acc) ==
    IF k > Len(tokens) THEN acc
    ELSE render_tokens(tokens, k + 1, render_token(acc, tokens[k]))

\* render_markdown(text): the inserts it makes and the code blocks it appends
\* to code_blocks.
render_markdown(text) ==
    render_tokens(tokenize(text), 1, [items |-> <<>>, blocks |-> <<>>])

\* toggle_code of one block
toggle_code_Expand(b) ==
    [b EXCEPT !.is_expanded = TRUE, !.code_frame = TRUE, !.toggle_icon = ICON_EXPANDED]
toggle_code(b) ==
    IF b.is_expanded
    THEN [b EXCEPT !.is_expanded = FALSE, !.code_frame = FALSE, !.toggle_icon = ICON_COLLAPSED]
    ELSE [b EXCEPT !.is_expanded = TRUE, !.code_frame = TRUE, !.toggle_icon = ICON_EXPANDED]

\* The four widgets of a block's header that on_header_click is bound to.
ClickableWidgets == {"header_frame", "toggle_icon", "lang_label", "line_info"}

-----------------------------------------------------------------------------
(* Settings, GeminiClient state, ConversationManager                       *)

DEFAULT_MODEL == "gemini-2.5-pro"
AVAILABLE_MODELS ==
    [m \in {"gemini-2.5-pro", "gemini-2.5-flash"} |->
        IF m = "gemini-2.5-pro" THEN "Gemini 2.5 Pro" ELSE "Gemini 2.5 Flash"]

get_model_display_name(model_name) ==
    IF model_name \in DOMAIN AVAILABLE_MODELS THEN AVAILABLE_MODELS[model_name]
    ELSE model_name

\* A GenerationParams object: the tuple of its six fields in the order the
\* dataclass declares them; the float fields are kept in hundredths.
DefaultGenerationParams == <<32768, 70, 95, 40, 0, 0>>

\* GeminiClient.chat_session: None, or a ChatSession.  id tells the sessions
\* apart: the index of the worker whose call created it, 0 for a restored one.
NoSession == [open |-> FALSE, id |-> 0, history |-> <<>>]
start_chat(id, history) == [open |-> TRUE, id |-> id, history |-> history]

\* A part of a message of a ChatSession's history, and a message.
Part(kind, text) == [kind |-> kind, text |-> text]
Content(role, parts) == [role |-> role, parts |-> parts]

\* ConversationManager.add_to_log's entry (the wall-clock timestamp is left out)
log_entry(sender, message, image_info, model) ==
    [sender |-> sender, message |-> message, image_info |-> image_info, model |-> model]

\* update_api_usage's token estimate: int(len(text.split()) * 1.3)
estimated_tokens(words) == (words * 13) \div 10

-----------------------------------------------------------------------------
(* ChatDisplay                                                             *)

\* display_welcome_message: the welcome text names the model and the token
\* limit, then a rule.
display_welcome_message(current_model_display, params) ==
    << Item("system", "welcome " \o current_model_display \o " max "
                          \o ToString(params[1])),
       Item("system", Repeat("=", 80) \o "\n\n") >>

\* display_system_message
display_system_message(message) ==
    << Item("system", message \o "\n"), Item("system", Repeat("-", 50) \o "\n\n") >>

\* display_user_message, the part that shows the attachments.  image_preview
\* is TRUE when a preview is passed, multiple_images is the number of previews
\* passed (0 for None), an info text is "None" for None.
user_message_attachments(attachment_info, image_preview, file_info, multiple_images) ==
    (IF multiple_images > 1 THEN <<Item("images", ToString(multiple_images))>>
     ELSE IF image_preview THEN <<Item("image", ""), Item("", "\n")>>
     ELSE <<>>)
    \o (IF attachment_info # "None" /\ Contains(attachment_info, "image")
        THEN <<Item("image_indicator", attachment_info \o "\n")>> ELSE <<>>)
    \o (IF file_info # "None"
        THEN <<Item("file_indicator", file_info \o "\n")>> ELSE <<>>)
    \o (IF attachment_info # "None" /\ ~Contains(attachment_info, "image")
           /\ file_info = "None"
        THEN <<Item("attachment_indicator", attachment_info \o "\n")>> ELSE <<>>)

\* display_user_message: the inserts, given those of the attachments and of
\* render_markdown(message).
display_user_message(attachments, rendered_items) ==
    <<Item("user_name", "You")>> \o attachments \o <<Item("user_text", " ")>>
        \o rendered_items \o <<Item("user_text", " \n\n")>>

\* start_bot_response: the header it inserts.
start_bot_response(model_display_name) == <<Item("bot_name", model_display_name)>>

\* display_bot_message and the rendering half of finalize_streaming_response:
\* the inserts, given those of render_markdown.
display_bot_message(rendered_items) == rendered_items \o <<Item("", "\n")>>

\* finalize_streaming_response's test: it renders only while streaming.
finalize_renders_Always(streaming) == TRUE
finalize_renders(streaming) == streaming

\* display_streaming_chunk: the new stream_buffer.
display_streaming_chunk(streaming, buffer, chunk_text) ==
    IF ~streaming THEN buffer ELSE buffer \o chunk_text

-----------------------------------------------------------------------------
(* ImageHandler and FileHandler, both in "multiple" mode                   *)

has_image == Len(images) > 0
has_file == Len(files) > 0

\* get_multiple_image_info
get_image_info ==
    IF images = <<>> THEN "None"
    ELSE IF Len(images) = 1 THEN "image attached: " \o images[1]
    ELSE "image x" \o ToString(Len(images))

\* get_multiple_file_info
get_file_info ==
    IF files = <<>> THEN "None"
    ELSE IF Len(files) = 1 THEN "file attached: " \o files[1]
    ELSE "file x" \o ToString(Len(files))

\* get_images_for_api and get_all_files_for_api: the parts of the message
get_images_for_api == [k \in 1..Len(images) |-> Part("image", images[k])]
get_all_files_for_api ==
    [k \in 1..Len(files) |-> Part("text", "file name: " \o files[k] \o "\n~~~\n...\n~~~")]

-----------------------------------------------------------------------------
(* Saving and loading a conversation: GenerationParams, GeminiClient,      *)
(* ConversationManager                                                     *)

\* GenerationParams.to_dict: the object as the dict that is written.
to_dict(params) ==
    [ max_output_tokens |-> params[1], temperature |-> params[2], top_p |-> params[3],
      top_k |-> params[4], presence_penalty |-> params[5],
      frequency_penalty |-> params[6] ]

\* dict.get(key, default)
dict_get(data, key, default) == IF key \in DOMAIN data THEN data[key] ELSE default

\* GenerationParams.from_dict: the object built from a dict that was read.
from_dict_TopSwapped(data) ==
    << dict_get(data, "max_output_tokens", 32768), dict_get(data, "temperature", 70),
       dict_get(data, "top_k", 95), dict_get(data, "top_p", 40),
       dict_get(data, "presence_penalty", 0), dict_get(data, "frequency_penalty", 0) >>
from_dict(data) ==
    << dict_get(data, "max_output_tokens", 32768), dict_get(data, "temperature", 70),
       dict_get(data, "top_p", 95), dict_get(data, "top_k", 40),
       dict_get(data, "presence_penalty", 0), dict_get(data, "frequency_penalty", 0) >>

\* get_conversation_history: the session's history as dicts.  Whether a part
\* that holds an image has an attribute text (an empty one) depends on the
\* library's Part type: image_has_text is that outcome.
get_conversation_history(session, image_has_text) ==
    LET part_data(part) ==
            IF part.kind = "text" THEN [text |-> part.text]
            ELSE IF image_has_text THEN [text |-> ""]
            ELSE [image |-> "[image attached]"]
    IN  IF ~session.open \/ session.history = <<>> THEN <<>>
        ELSE [ k \in 1..Len(session.history) |->
                 [ role  |-> session.history[k].role,
                   parts |-> [ j \in 1..Len(session.history[k].parts) |->
                                 part_data(session.history[k].parts[j]) ] ] ]

\* The loop over message["parts"] that adds up the text parts.
RECURSIVE display_text_of(_)
display_text_of(parts) ==
    IF parts = <<>> THEN ""
    ELSE (IF "text" \in DOMAIN Head(parts) THEN Head(parts).text ELSE "")
             \o display_text_of(Tail(parts))

\* ConversationManager.extract_display_messages
extract_display_messages(history) ==
    [ k \in 1..Len(history) |->
        [ role      |-> history[k].role,
          text      |-> display_text_of(history[k].parts),
          has_image |-> \E j \in 1..Len(history[k].parts) :
                           /\ "text" \notin DOMAIN history[k].parts[j]
                           /\ "image" \in DOMAIN history[k].parts[j] ] ]

\* ConversationManager.create_history_for_api: the messages that have text,
\* each with its text as one part.
RECURSIVE create_history_for_api(_)
create_history_for_api(history) ==
    IF history = <<>> THEN <<>>
    ELSE (IF display_text_of(Head(history).parts) # ""
          THEN << [ role  |-> Head(history).role,
                    parts |-> << [text |-> display_text_of(Head(history).parts)] >> ] >>
          ELSE <<>>)
         \o create_history_for_api(Tail(history))

\* GeminiClient.restore_conversation_history: its own loop, the same
\* reduction once more.
RECURSIVE history_messages(_)
history_messages(history) ==
    IF history = <<>> THEN <<>>
    ELSE (IF display_text_of(Head(history).parts) # ""
          THEN << [ role  |-> Head(history).role,
                    parts |-> << [text |-> display_text_of(Head(history).parts)] >> ] >>
          ELSE <<>>)
         \o history_messages(Tail(history))

\* restore_conversation_history: start_chat with those messages; the session
\* holds each dict as a message with one text part.  A restored session has
\* id 0.
restore_conversation_history(history) ==
    start_chat(0, [ k \in 1..Len(history_messages(history)) |->
                      Content(history_messages(history)[k].role,
                              << Part("text", history_messages(history)[k].parts[1].text) >>) ])

\* ConversationManager.save_conversation: the dict that is written (the
\* wall-clock timestamp is left out).
conversation_data(history) ==
    [ model              |-> current_model_name,
      model_display_name |-> get_model_display_name(current_model_name),
      supports_vision    |-> TRUE,
      generation_params  |-> to_dict(generation_params),
      system_prompt      |-> system_prompt,
      api_usage          |-> [requests_today |-> requests_today, tokens_used |-> tokens_used],
      conversation_log   |-> conversation_log,
      history            |-> history ]

-----------------------------------------------------------------------------
(* The inputs of the application                                           *)

\* How many times in all the user calls send_message or attaches a file.
MaxInputs == 2

\* ImageHandler.max_images and FileHandler.max_files
max_images == 4
max_files == 4

\* What the user types, and the files the user picks.
InputTexts == {" ", "hi"}
ImageFiles == {"a.png"}
TextFiles == {"d.txt"}

DEFAULT_IMAGE_TEXT == "Describe this image."
DEFAULT_FILE_TEXT == "Analyze this file."

\* The response streams of the API: the chunk texts in order; a chunk may
\* have no text.
Streams == { <<"">>, <<"ok">> }

\* What str(e) is for the exceptions the API call or the stream raises.
WorkerErrors == { "API key not valid", "Deadline Timeout" }

\* Responses with code blocks (a fence is written ~~~): one block with a
\* language, and text followed by two blocks.
FoldTexts == { "~~~py\nx\n~~~", "a\n~~~\ny\nz\n~~~\n~~~js\nw\n~~~" }

\* The settings the user can choose in the settings dialog.
Prompts == { "", "be brief" }
ParamSets == { DefaultGenerationParams, <<1024, 100, 90, 20, 10, 5>> }

\* Conversations a session can hold, each with the log the application kept
\* of it: a text exchange; a message with an image; a message with a file
\* whose response came with no text.
SavedConversations(model) ==
    { [ history |-> << Content("user", <<Part("text", "hi")>>),
                       Content("model", <<Part("text", "ok")>>) >>,
        log     |-> << log_entry("user", "hi", "None", model),
                       log_entry("bot", "ok", "None", model) >> ],
      [ history |-> << Content("user", <<Part("image", "a.png"),
                                         Part("text", DEFAULT_IMAGE_TEXT)>>),
                       Content("model", <<Part("text", "ok")>>) >>,
        log     |-> << log_entry("user", DEFAULT_IMAGE_TEXT, "image attached: a.png",
                                 model),
                       log_entry("bot", "ok", "None", model) >> ],
      [ history |-> << Content("user", <<Part("text", "file name: d.txt\n"),
                                         Part("text", "hi")>>),
                       Content("model", <<Part("text", "")>>),
                       Content("user", <<Part("text", "hi")>>),
                       Content("model", <<Part("text", "ok")>>) >>,
        log     |-> << log_entry("user", "hi", "file attached: d.txt", model),
                       log_entry("user", "hi", "None", model),
                       log_entry("bot", "ok", "None", model) >> ] }

RECURSIVE Concat(_)
Concat(chunks) == IF chunks = <<>> THEN "" ELSE Head(chunks) \o Concat(Tail(chunks))

\* Every text the application can hand to render_markdown: what is typed,
\* the default texts, the responses and the texts of the messages of the
\* saved conversations.
RenderTexts ==
    { strip(t) : t \in InputTexts } \cup {DEFAULT_IMAGE_TEXT, DEFAULT_FILE_TEXT}
    \cup FoldTexts
    \cup UNION { LET msgs == extract_display_messages(
                                 get_conversation_history(start_chat(1, c.history), b))
                 IN  { msgs[k].text : k \in 1..Len(msgs) }
                 : c \in SavedConversations(DEFAULT_MODEL), b \in BOOLEAN }
    \cup UNION { { Concat(SubSeq(s, 1, n)) : n \in 0..Len(s) } : s \in Streams }

\* What render_markdown does with each of them.
Rendered == [t \in RenderTexts |-> render_markdown(t)]

-----------------------------------------------------------------------------
(* ChatApplication: the handlers of the GUI thread                         *)

\* The user has not yet sent and attached MaxInputs times.
InputsLeft == Len(workers) + warnings + attach_ops < MaxInputs

\* send_message's user_input: the stripped input, or a default text when
\* only attachments are sent.
user_input_of(text) ==
    IF strip(text) # "" THEN strip(text)
    ELSE IF has_image THEN DEFAULT_IMAGE_TEXT
    ELSE IF has_file THEN DEFAULT_FILE_TEXT
    ELSE ""

\* send_message's first test, on the stripped input: FALSE when it returns
\* after the warning.
send_message_accepts_Any(stripped) == TRUE
send_message_accepts(stripped) == ~(stripped = "" /\ ~has_image /\ ~has_file)

\* The attachment part of the user message as send_message has it displayed:
\* the branches of its display_user_message call.
sent_message_attachments ==
    IF Len(images) > 1
    THEN user_message_attachments(get_image_info, FALSE, get_file_info, Len(images))
    ELSE IF has_image /\ has_file
    THEN user_message_attachments(get_image_info, TRUE, get_file_info, 0)
    ELSE IF has_image
    THEN user_message_attachments(get_image_info, TRUE, "None", 0)
    ELSE IF has_file
    THEN user_message_attachments("None", FALSE, get_file_info, 0)
    ELSE <<>>

RECURSIVE JoinWith(_, _)
JoinWith(sep, parts) ==
    IF parts = <<>> THEN ""
    ELSE IF Len(parts) = 1 THEN parts[1]
    ELSE parts[1] \o sep \o JoinWith(sep, Tail(parts))

\* send_message's attachment_log
attachment_log ==
    IF ~has_image /\ ~has_file THEN "None"
    ELSE JoinWith(" | ",
             (IF has_image THEN <<get_image_info>> ELSE <<>>)
             \o (IF has_file THEN <<get_file_info>> ELSE <<>>)
             \o (IF Len(files) > 1
                 THEN [i \in 1..Len(files) |-> "file " \o ToString(i) \o ": " \o files[i]] ELSE <<>>))

\* The thread process_response_in_background starts, before it has run.
\* History fields, read by no step: attached is what the handlers hold when
\* send_message runs; stopped and cleared tell that stop_streaming and
\* clear_conversation have run since, while the thread was still running;
\* completed tells that the complete_response the thread scheduled has run.
new_worker(user_input) ==
    [ pc            |-> "start",       \* start | iter | after | done
      user_input    |-> user_input,
      attached      |-> get_images_for_api \o get_all_files_for_api,
      stopped       |-> FALSE,
      cleared       |-> FALSE,
      completed     |-> FALSE,
      message_parts |-> <<>>,
      session       |-> 0,             \* the ChatSession the request was sent on
      stream        |-> <<>>,          \* the chunks response_stream has not given yet
      full_response |-> "",
      output_words  |-> 0 ]

\* A callback handed to root.after(0, ...) by the thread of request w
Callback(fn, arg, w) == [fn |-> fn, arg |-> arg, worker |-> w]

\* process_selected_file on an image file: ImageHandler.add_image
AttachImage ==
    /\ InputsLeft
    /\ Len(images) < max_images
    /\ \E f \in ImageFiles : images' = Append(images, f)
    /\ attach_ops' = attach_ops + 1
    /\ UNCHANGED <<selected_image, files, is_streaming, send_button,
                   stop_button, usage_label, workers, after_queue, warnings, cdVars,
                   gcVars, rtVars, tkVars>>

\* process_selected_file on a text file: FileHandler.add_file
AttachFile ==
    /\ InputsLeft
    /\ Len(files) < max_files
    /\ \E f \in TextFiles : files' = Append(files, f)
    /\ attach_ops' = attach_ops + 1
    /\ UNCHANGED <<images, selected_image, is_streaming, send_button,
                   stop_button, usage_label, workers, after_queue, warnings, cdVars,
                   gcVars, rtVars, tkVars>>

\* remove_all_attachments, the command of the attachment button while there
\* is an attachment
RemoveAllAttachments ==
    /\ has_image \/ has_file
    /\ images' = <<>>
    /\ selected_image' = "None"
    /\ files' = <<>>
    /\ UNCHANGED <<is_streaming, send_button, stop_button, usage_label,
                   workers, after_queue, warnings, attach_ops, cdVars, gcVars, rtVars, tkVars>>

\* send_message (the send button or the Enter key) when it goes ahead, with
\* text in the input box: the whole handler, to the start of the worker
\* thread.  The handler empties the input box.
SendMessageAccepted ==
    /\ InputsLeft
    /\ \E text \in InputTexts :
         /\ send_message_accepts(strip(text))
         /\ \E user_input \in {user_input_of(text)} :
              /\ \E r \in {Rendered[user_input]} :
                   /\ chat_text' = chat_text
                          \o display_user_message(sent_message_attachments, r.items)
                          \o start_bot_response(get_model_display_name(current_model_name))
                   /\ code_blocks' = code_blocks \o r.blocks
              /\ conversation_log' = Append(conversation_log,
                     log_entry("user", user_input, attachment_log, current_model_name))
              /\ workers' = Append(workers, new_worker(user_input))
    /\ send_button' = FALSE
    /\ stop_button' = TRUE
    /\ is_streaming' = TRUE
    /\ cd_is_streaming' = TRUE
    /\ stream_buffer' = ""
    /\ renders' = 0
    /\ UNCHANGED <<images, selected_image, files, usage_label, after_queue, warnings, attach_ops,
                   clipboard, chat_session, current_model_name, system_prompt,
                   generation_params, requests_today, tokens_used, saved_file,
                   rtVars, tkVars>>

\* send_message when there is nothing to send: the warning box, and return.
SendMessageRejected ==
    /\ InputsLeft
    /\ \E text \in InputTexts : ~send_message_accepts(strip(text))
    /\ warnings' = warnings + 1
    /\ UNCHANGED <<images, selected_image, files, is_streaming, send_button,
                   stop_button, usage_label, workers, after_queue, attach_ops, cdVars, gcVars,
                   rtVars, tkVars>>

complete_response_KeepsFlag ==
    /\ UNCHANGED is_streaming
    /\ stop_button' = FALSE
    /\ send_button' = TRUE
    /\ images' = <<>>
    /\ selected_image' = IF has_image THEN "None" ELSE selected_image
    /\ files' = <<>>

\* complete_response: what it assigns.
complete_response ==
    /\ is_streaming' = FALSE
    /\ stop_button' = FALSE
    /\ send_button' = TRUE
    /\ images' = <<>>
    /\ selected_image' = IF has_image THEN "None" ELSE selected_image
    /\ files' = <<>>

\* stop_streaming, the command of the stop button
StopStreaming ==
    /\ stop_button
    /\ complete_response
    /\ stream_buffer' = display_streaming_chunk(cd_is_streaming, stream_buffer,
                                                "\n\nresponse stopped\n")
    /\ workers' = [w \in 1..Len(workers) |->
                      IF workers[w].pc = "done" THEN workers[w]
                      ELSE [workers[w] EXCEPT !.stopped = TRUE]]
    /\ UNCHANGED <<usage_label, after_queue, warnings, attach_ops,
                   cd_is_streaming, chat_text, code_blocks, clipboard, renders, gcVars,
                   rtVars, tkVars>>

\* clear_conversation (new_conversation once confirmed): the session and the
\* log are dropped, the display is cleared and shows the welcome text.
\* clear_image resets the single-image fields only.
ClearConversation ==
    /\ chat_session' = NoSession
    /\ conversation_log' = <<>>
    /\ chat_text' = display_welcome_message(get_model_display_name(current_model_name),
                                            generation_params)
    /\ cd_is_streaming' = FALSE
    /\ stream_buffer' = ""
    /\ code_blocks' = <<>>
    /\ selected_image' = IF has_image THEN "None" ELSE selected_image
    /\ workers' = [w \in 1..Len(workers) |->
                      IF workers[w].pc = "done" THEN workers[w]
                      ELSE [workers[w] EXCEPT !.cleared = TRUE]]
    /\ UNCHANGED <<images, files, is_streaming, send_button, stop_button,
                   usage_label, after_queue, warnings, attach_ops, clipboard, renders,
                   current_model_name, system_prompt, generation_params, requests_today,
                   tokens_used, saved_file, rtVars, tkVars>>

-----------------------------------------------------------------------------
(* ChatApplication: the worker thread get_response_thread                  *)

\* The except branch: the message it has displayed for str(e).
error_message_of(error_str) ==
    IF Contains(Lower(error_str), "block_reason") \/ Contains(Lower(error_str), "safety")
    THEN IF Contains(error_str, "OTHER")
         THEN "image safety: the image cannot be processed"
         ELSE "safety filter: " \o error_str
    ELSE IF Contains(Lower(error_str), "api key")
    THEN "API key error: the key is invalid or expired"
    ELSE "error: " \o error_str

\* The messages of the exceptions the worker can get, computed once.
ErrorMessage == [e \in WorkerErrors |-> error_message_of(e)]
ErrorMessages == { ErrorMessage[e] : e \in WorkerErrors }

error_callbacks_NoComplete(w, error_str) ==
    << Callback("display_streaming_chunk", ErrorMessage[error_str], w) >>

\* What the except branch hands to root.after
error_callbacks(w, error_str) ==
    << Callback("display_streaming_chunk", ErrorMessage[error_str], w),
       Callback("complete_response", "", w) >>

unchangedByWorker ==
    UNCHANGED <<images, selected_image, files, is_streaming, send_button,
                stop_button, usage_label, warnings, attach_ops, cdVars, current_model_name,
                system_prompt, generation_params, saved_file, rtVars, tkVars>>

\* message_parts as the worker builds it: the handlers' images and files as
\* they are when the worker runs, then the text.
message_parts_of(user_input) ==
    get_images_for_api \o get_all_files_for_api \o <<Part("text", user_input)>>

\* send_message_with_retry opens a session when there is none.
session_for(w) == IF chat_session.open THEN chat_session ELSE start_chat(w, <<>>)

\* The worker builds message_parts and send_message_with_retry gives a
\* response stream.
WorkerApiReturns(w) ==
    /\ workers[w].pc = "start"
    /\ \E s \in Streams :
          workers' = [workers EXCEPT
              ![w].pc = "iter",
              ![w].message_parts = message_parts_of(workers[w].user_input),
              ![w].session = session_for(w).id,
              ![w].stream = s]
    /\ chat_session' = session_for(w)
    /\ UNCHANGED <<after_queue, requests_today, tokens_used, conversation_log>>
    /\ unchangedByWorker

\* The worker builds message_parts and send_message_with_retry raises: the
\* except branch.
WorkerApiRaises(w) ==
    /\ workers[w].pc = "start"
    /\ \E e \in WorkerErrors : after_queue' = after_queue \o error_callbacks(w, e)
    /\ chat_session' = session_for(w)
    /\ workers' = [workers EXCEPT
           ![w].pc = "done",
           ![w].message_parts = message_parts_of(workers[w].user_input)]
    /\ UNCHANGED <<requests_today, tokens_used, conversation_log>>
    /\ unchangedByWorker

\* The stream gives a chunk and the loop body runs: it breaks when streaming
\* was stopped, else it takes the chunk's text, if any, and schedules its
\* display.
WorkerTakesChunk(w) ==
    /\ workers[w].pc = "iter"
    /\ workers[w].stream # <<>>
    /\ \E chunk_text \in {Head(workers[w].stream)} :
         IF ~is_streaming
         THEN /\ workers' = [workers EXCEPT ![w].pc = "after"]
              /\ UNCHANGED after_queue
         ELSE IF chunk_text # ""
         THEN /\ workers' = [workers EXCEPT
                     ![w].stream = Tail(@),
                     ![w].full_response = @ \o chunk_text,
                     ![w].output_words = @ + word_count(chunk_text)]
              /\ after_queue' = Append(after_queue,
                                       Callback("display_streaming_chunk", chunk_text, w))
         ELSE /\ workers' = [workers EXCEPT ![w].stream = Tail(@)]
              /\ UNCHANGED after_queue
    /\ UNCHANGED <<chat_session, requests_today, tokens_used, conversation_log>>
    /\ unchangedByWorker

\* The stream raises while it is iterated: the except branch.
WorkerStreamRaises(w) ==
    /\ workers[w].pc = "iter"
    /\ \E e \in WorkerErrors : after_queue' = after_queue \o error_callbacks(w, e)
    /\ workers' = [workers EXCEPT ![w].pc = "done"]
    /\ UNCHANGED <<chat_session, requests_today, tokens_used, conversation_log>>
    /\ unchangedByWorker

\* The history of the session the request was sent on, once the stream has
\* been read to its end: the exchange is added to it.
history_after(w) ==
    IF workers[w].pc = "iter" /\ chat_session.open /\ chat_session.id = workers[w].session
    THEN [chat_session EXCEPT !.history = @ \o
             << Content("user", workers[w].message_parts),
                Content("model", <<Part("text", workers[w].full_response)>>) >>]
    ELSE chat_session

\* The loop has ended, by a break (pc "after") or because the stream is
\* exhausted.  With a response and still streaming the worker schedules the
\* final rendering, counts the request and logs the response; with no
\* response and still streaming it schedules a notice; in every case it
\* schedules complete_response.
WorkerAfterLoop(w) ==
    /\ \/ workers[w].pc = "after"
       \/ workers[w].pc = "iter" /\ workers[w].stream = <<>>
    /\ workers' = [workers EXCEPT ![w].pc = "done"]
    /\ IF is_streaming /\ workers[w].full_response # ""
       THEN /\ after_queue' = after_queue \o
                  << Callback("finalize_streaming_response", workers[w].full_response, w),
                     Callback("update_usage_display", "", w),
                     Callback("complete_response", "", w) >>
            /\ requests_today' = requests_today + 1
            /\ tokens_used' = tokens_used
                  + estimated_tokens(word_count(workers[w].user_input))
                  + estimated_tokens(workers[w].output_words)
            /\ conversation_log' = Append(conversation_log,
                  log_entry("bot", workers[w].full_response, "None", current_model_name))
       ELSE IF workers[w].full_response = "" /\ is_streaming
       THEN /\ after_queue' = after_queue \o
                  << Callback("display_streaming_chunk", "no response could be generated", w),
                     Callback("complete_response", "", w) >>
            /\ UNCHANGED <<requests_today, tokens_used, conversation_log>>
       ELSE /\ after_queue' = Append(after_queue, Callback("complete_response", "", w))
            /\ UNCHANGED <<requests_today, tokens_used, conversation_log>>
    /\ chat_session' = history_after(w)
    /\ unchangedByWorker

-----------------------------------------------------------------------------
(* The callbacks the Tk event loop runs, oldest first                      *)

NextCallbackIs(fn) == after_queue # <<>> /\ Head(after_queue).fn = fn

\* display_streaming_chunk(chunk_text)
CallbackDisplayChunk ==
    /\ NextCallbackIs("display_streaming_chunk")
    /\ after_queue' = Tail(after_queue)
    /\ stream_buffer' = display_streaming_chunk(cd_is_streaming, stream_buffer,
                                                Head(after_queue).arg)
    /\ UNCHANGED <<images, selected_image, files, is_streaming, send_button,
                   stop_button, usage_label, workers, warnings, attach_ops, cd_is_streaming,
                   chat_text, code_blocks, clipboard, renders, gcVars, rtVars, tkVars>>

\* finalize_streaming_response(full_response, model_display_name)
CallbackFinalize ==
    /\ NextCallbackIs("finalize_streaming_response")
    /\ after_queue' = Tail(after_queue)
    /\ IF finalize_renders(cd_is_streaming)
       THEN /\ \E r \in {Rendered[Head(after_queue).arg]} :
                  /\ chat_text' = chat_text \o display_bot_message(r.items)
                  /\ code_blocks' = code_blocks \o r.blocks
            /\ cd_is_streaming' = FALSE
            /\ stream_buffer' = ""
            /\ renders' = renders + 1
       ELSE UNCHANGED <<chat_text, code_blocks, cd_is_streaming, stream_buffer, renders>>
    /\ UNCHANGED <<images, selected_image, files, is_streaming, send_button,
                   stop_button, usage_label, workers, warnings, attach_ops, clipboard, gcVars,
                   rtVars, tkVars>>

\* update_usage_display
CallbackUpdateUsage ==
    /\ NextCallbackIs("update_usage_display")
    /\ after_queue' = Tail(after_queue)
    /\ usage_label' = [requests |-> requests_today, tokens |-> tokens_used]
    /\ UNCHANGED <<images, selected_image, files, is_streaming, send_button,
                   stop_button, workers, warnings, attach_ops, cdVars, gcVars, rtVars, tkVars>>

\* complete_response
CallbackCompleteResponse ==
    /\ NextCallbackIs("complete_response")
    /\ after_queue' = Tail(after_queue)
    /\ complete_response
    /\ workers' = [workers EXCEPT ![Head(after_queue).worker].completed = TRUE]
    /\ UNCHANGED <<usage_label, warnings, attach_ops, cdVars, gcVars, rtVars, tkVars>>

-----------------------------------------------------------------------------
(* The application after construction, and its steps                       *)

\* ChatDisplay, MarkdownRenderer after construction and the welcome message
DisplayIdle ==
    /\ cd_is_streaming = FALSE
    /\ stream_buffer = ""
    /\ chat_text = display_welcome_message(get_model_display_name(DEFAULT_MODEL),
                                           DefaultGenerationParams)
    /\ code_blocks = <<>>
    /\ clipboard = ""
    /\ renders = 0

\* GeminiClient and ConversationManager after construction; no file written
ClientIdle ==
    /\ chat_session = NoSession
    /\ current_model_name = DEFAULT_MODEL
    /\ system_prompt = ""
    /\ generation_params = DefaultGenerationParams
    /\ requests_today = 0
    /\ tokens_used = 0
    /\ conversation_log = <<>>
    /\ saved_file = [written |-> FALSE]

\* ChatApplication after create_ui: its own fields and widgets
GuiIdle ==
    /\ images = <<>>
    /\ selected_image = "None"
    /\ files = <<>>
    /\ is_streaming = FALSE
    /\ send_button = TRUE
    /\ stop_button = FALSE
    /\ usage_label = [requests |-> 0, tokens |-> 0]
    /\ workers = <<>>
    /\ after_queue = <<>>
    /\ warnings = 0
    /\ attach_ops = 0

AppIdle == GuiIdle /\ DisplayIdle /\ ClientIdle

Init == AppIdle /\ RetryIdle /\ TokIdle

\* A step of the user, of a worker thread, or of the event loop running the
\* oldest callback.
Next ==
    \/ AttachImage \/ AttachFile \/ RemoveAllAttachments
    \/ SendMessageAccepted \/ SendMessageRejected \/ StopStreaming \/ ClearConversation
    \/ \E w \in 1..Len(workers) : WorkerApiReturns(w)
    \/ \E w \in 1..Len(workers) : WorkerApiRaises(w)
    \/ \E w \in 1..Len(workers) : WorkerTakesChunk(w)
    \/ \E w \in 1..Len(workers) : WorkerStreamRaises(w)
    \/ \E w \in 1..Len(workers) : WorkerAfterLoop(w)
    \/ CallbackDisplayChunk \/ CallbackFinalize \/ CallbackUpdateUsage
    \/ CallbackCompleteResponse

\* The application: the user, the worker threads and the event loop.
Spec == Init /\ [][Next]_vars

\* The application with its scheduling: a started thread keeps running (the
\* API call and the response stream end), and the Tk event loop runs the
\* callbacks handed to root.after.
FairSpec ==
    /\ Spec
    /\ \A w \in 1..MaxInputs :
          WF_vars(/\ w \in 1..Len(workers)
                  /\ \/ WorkerApiReturns(w) \/ WorkerApiRaises(w)
                     \/ WorkerTakesChunk(w) \/ WorkerStreamRaises(w)
                     \/ WorkerAfterLoop(w))
    /\ WF_vars(CallbackDisplayChunk \/ CallbackFinalize
               \/ CallbackUpdateUsage \/ CallbackCompleteResponse)

-----------------------------------------------------------------------------
(* Code blocks in the display: folding and copying                         *)

\* How many code blocks the display holds and how often one block is clicked.
MaxBlocks == 3
MaxClicks == 3

\* display_bot_message with a response that holds code blocks: render_markdown
\* inserts the response and appends its blocks to code_blocks.
DisplayBotMessage ==
    /\ \E text \in FoldTexts : \E r \in {Rendered[text]} :
          /\ Len(code_blocks) + Len(r.blocks) <= MaxBlocks
          /\ chat_text' = chat_text \o display_bot_message(r.items)
          /\ code_blocks' = code_blocks \o r.blocks
    /\ UNCHANGED <<cd_is_streaming, stream_buffer, clipboard, renders, uiVars, gcVars,
                   rtVars, tkVars>>

\* A click on one of the four bound widgets of a block's header:
\* on_header_click calls the block's toggle_code.
ClickCodeHeader ==
    /\ \E b \in 1..Len(code_blocks), widget \in ClickableWidgets :
          /\ code_blocks[b].clicks < MaxClicks
          /\ code_blocks' = [code_blocks EXCEPT
                                ![b] = [toggle_code(@) EXCEPT !.clicks = @ + 1]]
    /\ UNCHANGED <<cd_is_streaming, stream_buffer, chat_text, clipboard, renders,
                   uiVars, gcVars, rtVars, tkVars>>

\* A click on a block's copy button: _copy_to_clipboard(token.content)
ClickCopyButton ==
    /\ \E b \in 1..Len(code_blocks) : clipboard' = code_blocks[b].content
    /\ UNCHANGED <<cd_is_streaming, stream_buffer, chat_text, code_blocks, renders,
                   uiVars, gcVars, rtVars, tkVars>>

NextFold == DisplayBotMessage \/ ClickCodeHeader \/ ClickCopyButton \/ ClearConversation

\* The display with responses that hold code blocks, and the user's clicks.
SpecFold == Init /\ [][NextFold]_vars

-----------------------------------------------------------------------------
(* ChatApplication: saving and loading, the model and the settings         *)

LOADED_MESSAGE == "conversation loaded"
\* save_conversation, once a file name is chosen: refused without a session
\* that has history.  saved_file.saved is history: the values as they were
\* when the file was written.
SaveConversation ==
    /\ chat_session.open
    /\ chat_session.history # <<>>
    /\ \E image_has_text \in BOOLEAN :
          saved_file' =
              [ written |-> TRUE,
                data    |-> conversation_data(
                                get_conversation_history(chat_session, image_has_text)),
                saved   |-> [ model             |-> current_model_name,
                              generation_params |-> generation_params,
                              system_prompt     |-> system_prompt,
                              conversation_log  |-> conversation_log,
                              history           |-> chat_session.history ] ]
    /\ UNCHANGED <<uiVars, cdVars, chat_session, current_model_name, system_prompt,
                   generation_params, requests_today, tokens_used, conversation_log,
                   rtVars, tkVars>>

\* The loop of display_loaded_conversation over the display messages: the
\* inserts made, the code blocks appended, and whether start_bot_response
\* was called.
display_loaded_message(acc, msg, model_display_name) ==
    IF msg.role = "user"
    THEN [ acc EXCEPT
             !.items = @ \o display_user_message(
                              user_message_attachments(
                                  IF msg.has_image THEN "image attached" ELSE "None",
                                  FALSE, "None", 0),
                              Rendered[msg.text].items),
             !.blocks = @ \o Rendered[msg.text].blocks ]
    ELSE IF msg.role = "model"
    THEN [ acc EXCEPT
             !.items = @ \o start_bot_response(model_display_name)
                         \o display_bot_message(Rendered[msg.text].items),
             !.blocks = @ \o Rendered[msg.text].blocks,
             !.started = TRUE ]
    ELSE acc

RECURSIVE display_loaded_messages(_, _, _, _)
display_loaded_messages(msgs, k, acc, model_display_name) ==
    IF k > Len(msgs) THEN acc
    ELSE display_loaded_messages(msgs, k + 1,
             display_loaded_message(acc, msgs[k], model_display_name), model_display_name)

\* restore_conversation_settings: the model after it
restored_model(data) ==
    IF dict_get(data, "model", DEFAULT_MODEL) # current_model_name
          /\ dict_get(data, "model", DEFAULT_MODEL) \in DOMAIN AVAILABLE_MODELS
    THEN dict_get(data, "model", DEFAULT_MODEL)
    ELSE current_model_name

\* load_conversation with the file that was written: ConversationManager's
\* load_conversation, restore_conversation_settings and
\* display_loaded_conversation.
LoadConversation ==
    /\ saved_file.written
    /\ \E data \in {saved_file.data} :
          /\ conversation_log' = data.conversation_log
          /\ current_model_name' = restored_model(data)
          /\ generation_params' = from_dict(data.generation_params)
          /\ system_prompt' = data.system_prompt
          /\ \E shown \in { display_loaded_messages(
                                extract_display_messages(data.history), 1,
                                [items |-> <<>>, blocks |-> <<>>, started |-> FALSE],
                                get_model_display_name(restored_model(data))) } :
                /\ chat_text' = display_system_message(LOADED_MESSAGE)
                                  \o display_system_message(
                                         "model: " \o data.model_display_name)
                                  \o shown.items
                /\ code_blocks' = shown.blocks
                /\ cd_is_streaming' = shown.started
                /\ renders' = IF shown.started THEN 0 ELSE renders
          /\ chat_session' = restore_conversation_history(
                                 create_history_for_api(data.history))
    /\ stream_buffer' = ""
    /\ UNCHANGED <<uiVars, clipboard, requests_today, tokens_used, saved_file,
                   rtVars, tkVars>>

\* change_model with another model picked in the combo box (and the
\* question answered yes): the client's change_model, clear_conversation,
\* then a system message.
ChangeModel ==
    /\ \E new_model \in DOMAIN AVAILABLE_MODELS :
          /\ new_model # current_model_name
          /\ current_model_name' = new_model
          /\ chat_text' = display_welcome_message(get_model_display_name(new_model),
                                                  generation_params)
                            \o display_system_message(
                                   "model changed to " \o AVAILABLE_MODELS[new_model])
    /\ chat_session' = NoSession
    /\ conversation_log' = <<>>
    /\ cd_is_streaming' = FALSE
    /\ stream_buffer' = ""
    /\ code_blocks' = <<>>
    /\ selected_image' = IF has_image THEN "None" ELSE selected_image
    /\ UNCHANGED <<images, files, is_streaming, send_button, stop_button,
                   usage_label, workers, after_queue, warnings, attach_ops, clipboard, renders,
                   system_prompt, generation_params, requests_today,
                   tokens_used, saved_file, rtVars, tkVars>>

\* on_save of the settings dialog: the new parameters, and set_system_prompt,
\* which sets the model up again (no session) when the prompt differs.
SettingsSave ==
    /\ \E new_params \in ParamSets, new_prompt \in Prompts :
          /\ generation_params' = new_params
          /\ system_prompt' = new_prompt
          /\ chat_session' = IF new_prompt # system_prompt THEN NoSession ELSE chat_session
    /\ UNCHANGED <<uiVars, cdVars, current_model_name, requests_today, tokens_used,
                   conversation_log, saved_file, rtVars, tkVars>>

\* The display of a conversation that was held, from its log: send_message
\* shows the user's message and the header of the response, the final
\* rendering shows the response.
RECURSIVE display_log(_, _)
display_log(log, model_display_name) ==
    IF log = <<>> THEN <<>>
    ELSE (IF Head(log).sender = "user"
          THEN display_user_message(
                   user_message_attachments(Head(log).image_info, FALSE, "None", 0),
                   Rendered[Head(log).message].items)
                   \o start_bot_response(model_display_name)
          ELSE display_bot_message(Rendered[Head(log).message].items))
         \o display_log(Tail(log), model_display_name)

\* The application idle with a conversation held: any model, settings and
\* conversation of the bounded sets, the usage counters as after the daily
\* reset, and no file written.
InitSpecSave ==
    /\ GuiIdle /\ RetryIdle /\ TokIdle
    /\ current_model_name \in DOMAIN AVAILABLE_MODELS
    /\ system_prompt \in Prompts
    /\ generation_params \in ParamSets
    /\ \E c \in SavedConversations(current_model_name) :
          /\ chat_session = start_chat(1, c.history)
          /\ conversation_log = c.log
          /\ chat_text = display_welcome_message(
                             get_model_display_name(current_model_name), generation_params)
                           \o display_log(c.log, get_model_display_name(current_model_name))
    /\ requests_today = 0
    /\ tokens_used = 0
    /\ saved_file = [written |-> FALSE]
    /\ cd_is_streaming = FALSE
    /\ stream_buffer = ""
    /\ code_blocks = <<>>
    /\ clipboard = ""
    /\ renders = 0

NextSave ==
    SaveConversation \/ LoadConversation \/ ChangeModel \/ SettingsSave \/ ClearConversation

\* Conversations saved and loaded, between changes of the model and the
\* settings.
SpecSave == InitSpecSave /\ [][NextSave]_vars

-----------------------------------------------------------------------------
(* The retry wrapper and the tokenizer on their own                        *)

\* The retry wrapper alone.
InitSpecRetry == InitRetry /\ TokIdle /\ AppIdle
SpecRetry == InitSpecRetry /\ [][NextRetry]_vars

\* chat_session.send_message is a blocking call that returns or raises, and
\* time.sleep returns: a started attempt always completes.
FairSpecRetry == SpecRetry /\ WF_vars(RetryStep)

\* The tokenizer alone, on every text of Texts.
InitSpecTok == TokIdle /\ RetryIdle /\ AppIdle
SpecTok == InitSpecTok /\ [][NextTok]_vars

-----------------------------------------------------------------------------
(* Claims                                                                  *)

\* The claims' own reading of "retryable": the lower-cased message holds one
\* of the seven markers.
HasRetryableMarker(e) ==
    \/ Contains(Lower(e), "rate limit")
    \/ Contains(Lower(e), "quota")
    \/ Contains(Lower(e), "temporarily unavailable")
    \/ Contains(Lower(e), "server error")
    \/ Contains(Lower(e), "timeout")
    \/ Contains(Lower(e), "connection")
    \/ Contains(Lower(e), "network")

RetryDone == rt_pc \in {"returned", "raised"}

C1_Outcome ==
    /\ rt_retries <= MAX_RETRIES
    /\ Len(rt_log) <= MAX_RETRIES + 1
    /\ Len(rt_log) <= rt_retries + 1
    /\ rt_pc = "returned" =>
          /\ rt_result.kind = "stream"
          /\ rt_result.attempt = Len(rt_log)
          /\ rt_log[Len(rt_log)] = "ok"
          /\ \A k \in 1..(Len(rt_log) - 1) : rt_log[k] # "ok"
    /\ rt_pc = "raised" =>
          /\ rt_result.kind = "raised"
          /\ rt_result.value = rt_log[Len(rt_log)]
          /\ rt_result.value # "ok"
          /\ \/ rt_retries = MAX_RETRIES
             \/ ~HasRetryableMarker(rt_result.value)

C2_NonRetryableRaisedAtOnce ==
    \A k \in 1..Len(rt_log) :
        (rt_log[k] # "ok" /\ ~HasRetryableMarker(rt_log[k])) =>
            /\ k = Len(rt_log)
            /\ rt_pc = "raised"
            /\ rt_result.value = rt_log[k]
            /\ Len(rt_sleeps) = k - 1

\* C2 witness: a non-retryable error arrives after two retries.
C2_Witness ==
    /\ rt_pc = "raised"
    /\ Len(rt_log) = 3
    /\ ~HasRetryableMarker(rt_log[3])

\* The claims' own reading of the fence lines of tokenize's input.
IsOpenerLine(l) == StartsWith(strip(l), FENCE)
IsCloserLine(l) == strip(l) = FENCE
TokAtLine == tk_pc = "loop" /\ tk_i < Len(tk_lines)
HasLaterCloser(lines, i) ==
    \E j \in (i + 1)..(Len(lines) - 1) : IsCloserLine(At(lines, j))
FirstLaterCloser(lines, i) ==
    CHOOSE j \in (i + 1)..(Len(lines) - 1) :
        /\ IsCloserLine(At(lines, j))
        /\ \A k \in (i + 1)..(j - 1) : ~IsCloserLine(At(lines, k))
\* The lines strictly between i and j, joined by newline.
RECURSIVE LinesBetween(_, _, _)
LinesBetween(lines, i, j) ==
    IF i + 1 >= j THEN ""
    ELSE IF i + 2 = j THEN At(lines, i + 1)
    ELSE At(lines, i + 1) \o "\n" \o LinesBetween(lines, i + 1, j)
LanguageOf(l) == strip(Slice(strip(l), Len(FENCE) + 1, Len(strip(l))))

\* C5: a pass of tokenize that stands on an opening fence with a later bare
\* closing fence appends exactly one CODE_BLOCK token: its content is the
\* lines strictly between the opener and the first closer, joined by newline
\* and unchanged, its language the opener's text after the three backticks
\* (trimmed); tokenizing goes on at the line after that closer.
C5_ClosedFenceIsOneCodeBlock ==
    [][ (TokAtLine /\ IsOpenerLine(At(tk_lines, tk_i)) /\ HasLaterCloser(tk_lines, tk_i)) =>
           /\ tk_tokens' =
                 Append(tk_tokens,
                        [type     |-> "code_block",
                         content  |-> LinesBetween(tk_lines, tk_i,
                                                   FirstLaterCloser(tk_lines, tk_i)),
                         level    |-> 0,
                         metadata |-> [language |-> LanguageOf(At(tk_lines, tk_i))]])
           /\ tk_i' = FirstLaterCloser(tk_lines, tk_i) + 1 ]_vars

\* C5 witness: a returned token stream with a code block whose content is a
\* fence-with-language line, and text tokenized after the block.
C5_Witness ==
    /\ tk_pc = "done"
    /\ Len(tk_tokens) > 1
    /\ tk_tokens[1].type = "code_block"
    /\ tk_tokens[1].content = "~~~py"
    /\ tk_tokens[1].metadata.language = "js"

\* C6 (as claimed): a pass that stands on an opening fence with no later bare
\* closing fence appends the fence line as one plain TEXT token and one
\* LINE_BREAK, and goes on at the next line.
C6_UnclosedFenceIsPlainText ==
    [][ (TokAtLine /\ IsOpenerLine(At(tk_lines, tk_i)) /\ ~HasLaterCloser(tk_lines, tk_i)) =>
           /\ \E shown \in { At(tk_lines, tk_i), rstrip(At(tk_lines, tk_i)),
                            strip(At(tk_lines, tk_i)) } :
                  tk_tokens' = tk_tokens \o
                     << [type |-> "text", content |-> shown, level |-> 0,
                         metadata |-> NoMeta],
                        [type |-> "line_break", content |-> "\n", level |-> 0,
                         metadata |-> NoMeta] >>
           /\ tk_i' = tk_i + 1 ]_vars

PassesOf(l) == { n \in 1..Len(tk_passes) : tk_passes[n].first <= l /\ l <= tk_passes[n].last }

RECURSIVE TokensOfPasses(_)
TokensOfPasses(n) ==
    IF n = 0 THEN <<>>
    ELSE TokensOfPasses(n - 1) \o tokenize_pass(tk_lines, tk_passes[n].first).tokens

C7_EveryLineOnce ==
    /\ tk_i <= Len(tk_lines)
    /\ tk_pc = "done" => tk_i = Len(tk_lines)
    /\ \A l \in 0..(Len(tk_lines) - 1) :
          Cardinality(PassesOf(l)) = IF l < tk_i THEN 1 ELSE 0
    /\ \A n \in 1..Len(tk_passes) :
          /\ tk_passes[n].kind = "blank" =>
                /\ tk_passes[n].last = tk_passes[n].first
                /\ strip(At(tk_lines, tk_passes[n].first)) = ""
          /\ tk_passes[n].kind = "code_block" =>
                /\ IsOpenerLine(At(tk_lines, tk_passes[n].first))
                /\ tk_passes[n].last = FirstLaterCloser(tk_lines, tk_passes[n].first)
          /\ tk_passes[n].kind = "line" =>
                /\ tk_passes[n].last = tk_passes[n].first
                /\ strip(At(tk_lines, tk_passes[n].first)) # ""
          /\ n > 1 => tk_passes[n - 1].first < tk_passes[n].first
    /\ tk_tokens = TokensOfPasses(Len(tk_passes))

\* The loop is never stuck before it returns: it stands on a line that a
\* pass consumes, or the loop condition fails and tokenize returns.
C7_CanGoOn ==
    tk_pc = "loop" =>
        \/ tk_i >= Len(tk_lines)
        \/ /\ tokenize_pass(tk_lines, tk_i).kind \in {"blank", "code_block", "line"}
           /\ tokenize_pass(tk_lines, tk_i).i > tk_i
           /\ tokenize_pass(tk_lines, tk_i).i <= Len(tk_lines)

\* C7: tokenize is one pass over its lines: every pass of the loop moves the
\* index forward, every line is consumed by exactly one pass (as a blank
\* line, inside one closed code block, or as one ordinary line), the tokens
\* stand in the order of the lines they come from, and tokenize returns: the
\* index rises with every pass, never passes the number of lines, and the
\* loop is never stuck.
C7_SinglePassAndTerminates ==
    /\ [](C7_EveryLineOnce /\ C7_CanGoOn)
    /\ [][tk_passes' # tk_passes =>
            /\ tk_i' > tk_i
            /\ Len(tk_passes') = Len(tk_passes) + 1
            /\ Len(tk_lines) - tk_i' < Len(tk_lines) - tk_i
            /\ Len(tk_lines) - tk_i' >= 0]_vars
    /\ [][tk_pc = "loop" /\ tk_pc' = "loop" => tk_i' > tk_i]_vars

\* C7 witness: a finished call whose passes were a code block, a blank line
\* and an ordinary line.
C7_Witness ==
    /\ tk_pc = "done"
    /\ { tk_passes[n].kind : n \in 1..Len(tk_passes) } = {"code_block", "blank", "line"}

\* A step of the event loop that runs the oldest callback.
RunsCallback(fn) == NextCallbackIs(fn) /\ after_queue' = Tail(after_queue)

\* The text msg can be read in the chat display.
VisibleInChat(text, msg) == \E k \in 1..Len(text) : Contains(text[k].text, msg)

\* C3, as the specification states it: when the worker's except branch has
\* scheduled its error message, the callback that handles the message appends
\* it to the chat display as visible chat text, and the complete_response
\* that follows leaves is_streaming false and the send button restored.
C3_ErrorShownAsChatText ==
    /\ [][ (RunsCallback("display_streaming_chunk")
             /\ Head(after_queue).arg \in ErrorMessages)
           => VisibleInChat(chat_text', Head(after_queue).arg) ]_vars
    /\ [][ RunsCallback("complete_response")
           => ~is_streaming' /\ send_button' /\ ~stop_button' ]_vars

\* A step that appends a user entry to the conversation log: send_message
\* going ahead.
LogsUserMessage ==
    /\ Len(conversation_log') = Len(conversation_log) + 1
    /\ conversation_log'[Len(conversation_log')].sender = "user"

\* C4: a send_message call that goes ahead starts exactly one worker thread,
\* for that request, and it has text to send or an attachment; a
\* send_message call that shows the warning (no text, no attachment) starts
\* no thread and changes nothing else; no other step starts a thread.
C4_OneThreadPerAcceptedSend ==
    /\ [][ LogsUserMessage
           => /\ Len(workers') = Len(workers) + 1
              /\ SubSeq(workers', 1, Len(workers)) = workers
              /\ workers'[Len(workers')].pc = "start"
              /\ workers'[Len(workers')].user_input
                    = conversation_log'[Len(conversation_log')].message
              /\ \/ workers'[Len(workers')].user_input
                        \in { strip(t) : t \in InputTexts } \ {""}
                 \/ Len(images) > 0
                 \/ Len(files) > 0 ]_vars
    /\ [][ warnings' # warnings
           => /\ Len(images) = 0 /\ Len(files) = 0
              /\ UNCHANGED <<images, selected_image, files, is_streaming, send_button,
                             stop_button, usage_label, workers, after_queue, attach_ops,
                             cdVars, gcVars>> ]_vars
    /\ [][ Len(workers') # Len(workers) => LogsUserMessage ]_vars

\* A rejected call and an accepted call have both happened.
C4_Witness ==
    /\ warnings = 1
    /\ Len(workers) = 1
    /\ workers[1].user_input = "hi"
    /\ is_streaming

\* A step of a worker thread: a thread moves on, or takes a chunk, and no thread starts.
WorkerStepTaken ==
    /\ Len(workers') = Len(workers)
    /\ \E w \in 1..Len(workers) :
          \/ workers'[w].pc # workers[w].pc
          \/ workers'[w].stream # workers[w].stream

\* C8: between one start_bot_response and the next at most one response is
\* rendered; a finalize_streaming_response that finds ChatDisplay.is_streaming
\* true renders the full response and sets it false, one that finds it false
\* (a further call, or one after clear_display) adds nothing to the display;
\* no step of a worker thread touches the display, and a response is only
\* rendered by a callback of the event loop.
C8_RenderedAtMostOnce ==
    /\ [](renders <= 1)
    /\ [](renders = 1 => ~cd_is_streaming)
    /\ [][ (RunsCallback("finalize_streaming_response") /\ cd_is_streaming)
           => /\ chat_text' = chat_text
                    \o display_bot_message(Rendered[Head(after_queue).arg].items)
              /\ ~cd_is_streaming'
              /\ renders' = renders + 1 ]_vars
    /\ [][ (RunsCallback("finalize_streaming_response") /\ ~cd_is_streaming)
           => UNCHANGED <<chat_text, code_blocks, cd_is_streaming, renders>> ]_vars
    /\ [][ WorkerStepTaken => UNCHANGED cdVars ]_vars
    /\ [][ renders' > renders => RunsCallback("finalize_streaming_response") ]_vars

\* Two workers have each scheduled a final rendering in the same
\* start_bot_response window, both callbacks have run, and one response was
\* rendered.
C8_Witness ==
    /\ Len(workers) = 2
    /\ \A w \in 1..2 : workers[w].pc = "done" /\ workers[w].full_response = "ok"
    /\ requests_today = 2
    /\ after_queue = <<>>
    /\ renders = 1
    /\ ~cd_is_streaming

\* A code block as _render_code_block leaves it.
IsCollapsed(b) == ~b.is_expanded /\ ~b.code_frame /\ b.toggle_icon = ICON_COLLAPSED

\* The step is a click on the header of block b.
ClicksBlock(b) ==
    /\ Len(code_blocks') = Len(code_blocks)
    /\ b \in 1..Len(code_blocks)
    /\ code_blocks'[b].clicks = code_blocks[b].clicks + 1

\* C9: a rendered code block starts collapsed (is_expanded false, code frame
\* not shown, icon right-pointing); every click on one of the four widgets
\* of its header flips is_expanded; the code frame is shown and the icon is
\* down-pointing exactly when is_expanded is true; after an even number of
\* clicks the block is as it started; a click on a copy button leaves every
\* block's fold state alone, and a click on one block leaves the other
\* blocks alone.
C9_CodeBlocksFold ==
    /\ [](\A b \in 1..Len(code_blocks) :
            /\ code_blocks[b].code_frame = code_blocks[b].is_expanded
            /\ (code_blocks[b].toggle_icon = ICON_EXPANDED) = code_blocks[b].is_expanded
            /\ code_blocks[b].toggle_icon \in {ICON_EXPANDED, ICON_COLLAPSED}
            /\ code_blocks[b].clicks = 0 => IsCollapsed(code_blocks[b])
            /\ code_blocks[b].clicks % 2 = 0 => IsCollapsed(code_blocks[b]))
    /\ [][ Len(code_blocks') > Len(code_blocks)
           => /\ SubSeq(code_blocks', 1, Len(code_blocks)) = code_blocks
              /\ \A b \in (Len(code_blocks) + 1)..Len(code_blocks') :
                    IsCollapsed(code_blocks'[b]) /\ code_blocks'[b].clicks = 0 ]_vars
    /\ [][ \A b \in 1..Len(code_blocks) :
             ClicksBlock(b)
             => /\ code_blocks'[b].is_expanded = ~code_blocks[b].is_expanded
                /\ \A c \in 1..Len(code_blocks) :
                      c # b => code_blocks'[c] = code_blocks[c] ]_vars
    /\ [][ clipboard' # clipboard => code_blocks' = code_blocks ]_vars

\* Three blocks of two responses: the first was clicked twice and is
\* collapsed, the second was clicked once and is expanded and its code was
\* copied, the third was never clicked.
C9_Witness ==
    /\ Len(code_blocks) = 3
    /\ code_blocks[1].clicks = 2 /\ IsCollapsed(code_blocks[1])
    /\ code_blocks[2].clicks = 1 /\ code_blocks[2].is_expanded
    /\ code_blocks[2].code_frame /\ code_blocks[2].toggle_icon = ICON_EXPANDED
    /\ code_blocks[3].clicks = 0
    /\ clipboard = code_blocks[2].content

\* The text of a message of a session's history: its text parts, in order.
RECURSIVE TextOfParts(_)
TextOfParts(parts) ==
    IF parts = <<>> THEN ""
    ELSE (IF Head(parts).kind = "text" THEN Head(parts).text ELSE "")
             \o TextOfParts(Tail(parts))

\* A history reduced to its text: the messages that have text, in order,
\* each with one text part.
RECURSIVE ReducedToText(_)
ReducedToText(history) ==
    IF history = <<>> THEN <<>>
    ELSE (IF TextOfParts(Head(history).parts) # ""
          THEN << Content(Head(history).role,
                          << Part("text", TextOfParts(Head(history).parts)) >>) >>
          ELSE <<>>)
         \o ReducedToText(Tail(history))

\* C10: when load_conversation has read the file save_conversation wrote,
\* the client's model name, the generation parameters and the system prompt
\* are those of the time of saving, the conversation log is the saved log,
\* and the chat session is a new one (a restored session) whose history is
\* the saved history reduced to its text.
C10_LoadRestoresSaved ==
    [][ LoadConversation
        => /\ current_model_name' = saved_file.saved.model
           /\ generation_params' = saved_file.saved.generation_params
           /\ system_prompt' = saved_file.saved.system_prompt
           /\ conversation_log' = saved_file.saved.conversation_log
           /\ chat_session'.open
           /\ chat_session'.id = 0
           /\ chat_session'.history = ReducedToText(saved_file.saved.history) ]_vars

\* A conversation was loaded (the display opens with the load message) and
\* it is the session's: the saved history had a message without text, which
\* the restored session lacks, and the saved settings are not the defaults.
C10_Witness ==
    /\ saved_file.written
    /\ chat_text[1] = display_system_message(LOADED_MESSAGE)[1]
    /\ chat_session.open
    /\ chat_session.id = 0
    /\ chat_session.history = ReducedToText(saved_file.saved.history)
    /\ Len(chat_session.history) < Len(saved_file.saved.history)
    /\ generation_params = saved_file.saved.generation_params
    /\ generation_params # DefaultGenerationParams
    /\ current_model_name = saved_file.saved.model
    /\ current_model_name # DEFAULT_MODEL

RECURSIVE SumSeq(_)
SumSeq(s) == IF s = <<>> THEN 0 ELSE s[1] + SumSeq(Tail(s))

\* C11: within one top-level call of send_message_with_retry the sleep before
\* retry number n is RETRY_DELAY * n, so each wait is longer than the one
\* before it, and the waits of the call add up to at most RETRY_DELAY * 6.
C11_BackoffGrowsLinearly ==
    /\ Len(rt_sleeps) = rt_retries
    /\ \A n \in 1..Len(rt_sleeps) : rt_sleeps[n] = RETRY_DELAY * n
    /\ \A n \in 2..Len(rt_sleeps) : rt_sleeps[n] > rt_sleeps[n - 1]
    /\ SumSeq(rt_sleeps) <= RETRY_DELAY * 6

\* C11 witness: a call that slept before each of its three retries.
C11_Witness ==
    /\ Len(rt_sleeps) = MAX_RETRIES
    /\ SumSeq(rt_sleeps) = RETRY_DELAY * 6
    /\ rt_pc \in {"returned", "raised"}

\* The thread of request w ends: it leaves the loop, or its except branch
\* runs, and it has scheduled its callbacks.
WorkerEnds(w) == workers[w].pc # "done" /\ workers'[w].pc = "done"

\* The request whose thread scheduled the callback the event loop runs next
CallbackWorker == workers[Head(after_queue).worker]

\* C12, as the specification states it: once stop_streaming has run for a
\* request, the thread of that request appends no "bot" entry to the
\* conversation log and counts nothing in the API usage when it ends, and the
\* final rendering it may schedule changes nothing in the chat display,
\* whatever the user and the threads have done in between.
C12_StoppedResponseDropped ==
    /\ [][ \A w \in 1..Len(workers) :
              (workers[w].stopped /\ WorkerEnds(w))
              => /\ conversation_log' = conversation_log
                 /\ requests_today' = requests_today
                 /\ tokens_used' = tokens_used ]_vars
    /\ [][ (RunsCallback("finalize_streaming_response") /\ CallbackWorker.stopped)
           => chat_text' = chat_text ]_vars

\* The requests whose thread has not yet scheduled its complete_response
InFlight == { w \in 1..Len(workers) : workers[w].pc # "done" }

\* C13, as the specification states it: at most one worker thread is in
\* flight at any time, for every sequence of send, Enter, stop and
\* new-conversation actions.
C13_AtMostOneWorkerInFlight == Cardinality(InFlight) <= 1

\* C14, as the specification states it: the message parts a worker has built
\* are the images and files attached when send_message ran for its request,
\* followed by the user text.
C14_SendsWhatWasAttached ==
    \A w \in 1..Len(workers) :
        workers[w].pc # "start"
        => workers[w].message_parts
              = workers[w].attached \o <<Part("text", workers[w].user_input)>>

\* The non-empty chunk texts a response stream can give
ChunkTexts == UNION { { s[k] : k \in 1..Len(s) } : s \in Streams } \ {""}

\* C15, as the specification states it: while a response is in progress, a
\* non-empty chunk the worker received is in the chat display text once
\* display_streaming_chunk has run for it.
C15_ChunkShownWhenReceived ==
    [][ (RunsCallback("display_streaming_chunk")
          /\ cd_is_streaming
          /\ Head(after_queue).arg \in ChunkTexts)
        => /\ chat_text' # chat_text
           /\ VisibleInChat(chat_text', Head(after_queue).arg) ]_vars

\* The complete_response scheduled by the thread of request w has run.
Completed(w) == Len(workers) >= w /\ workers[w].completed

\* C16: every send_message that goes ahead is eventually followed by the
\* complete_response its worker schedules, on every path of the worker, and
\* when complete_response has run is_streaming is false, the send button is
\* shown and no image or file is attached.
C16_EverySendCompletes ==
    /\ \A w \in 1..MaxInputs : (Len(workers) >= w) ~> Completed(w)
    /\ [][ RunsCallback("complete_response")
           => /\ ~is_streaming' /\ send_button' /\ ~stop_button'
              /\ ~has_image' /\ ~has_file' ]_vars

\* C16 witness: two requests have completed, the first after it was stopped,
\* the second on the except branch.
C16_Witness ==
    /\ Len(workers) = 2
    /\ Completed(1) /\ Completed(2)
    /\ workers[1].stopped
    /\ workers[2].full_response = "" /\ workers[2].stream # <<>>
    /\ ~is_streaming /\ send_button

\* C17: between GUI handlers the stop button is shown, and the send button
\* hidden, exactly when ChatApplication.is_streaming is true.
C17_ButtonsFollowIsStreaming ==
    /\ stop_button <=> is_streaming
    /\ send_button <=> ~is_streaming

\* C17 witness: a request was stopped, a second one was sent before the
\* stopped thread ended, and the stale complete_response of the first has
\* run while the second is still in flight.
C17_Witness ==
    /\ Len(workers) = 2
    /\ workers[1].stopped
    /\ workers[1].completed
    /\ workers[2].pc # "done"
    /\ ~is_streaming
    /\ send_button

\* C18, as the specification states it: when the latest request has been
\* stopped, so that every attachment present was added after the stop, a
\* complete_response scheduled by the thread of that request removes no
\* attachment.
C18_LateAttachmentsKept ==
    [][ (RunsCallback("complete_response")
          /\ CallbackWorker.stopped
          /\ Head(after_queue).worker = Len(workers))
        => images' = images /\ files' = files ]_vars

\* C19, as the specification states it: the thread of a request that was sent
\* before clear_conversation ran adds no entry to the conversation log when
\* it ends after the clear.
C19_NoEntryOfClearedRequest ==
    [][ \A w \in 1..Len(workers) :
           (workers[w].cleared /\ WorkerEnds(w))
           => conversation_log' = conversation_log ]_vars

\* C20, as the specification states it: when clear_conversation returns no
\* image attachment is pending, so has_image() is false.
C20_ClearLeavesNoImage == [][ ClearConversation => ~has_image' ]_vars

====
